---- MODULE Spec2Model ----
(***************************************************************************)
(* Association metrics on baskets (src/metrics-example.py): the            *)
(* ContingencyTable class, its two statistics and the standalone           *)
(* local_mutual_information function.                                      *)
(*                                                                         *)
(* Numbers.  Observed counts and marginals are Python ints and are         *)
(* modelled as naturals.  An expected count, the float the code obtains    *)
(* by the division a / b of two ints, is carried as the exact rational     *)
(* a / b it rounds, the reduced record [num |-> n, den |-> d].             *)
(* The floats the statistics are made of are modelled bit for bit as IEEE  *)
(* 754 binary64 values: [py |-> "float", neg, e, hi, lo] is the double     *)
(* (-1)^neg * (hi * 2^26 + lo) * 2^e, with 2^52 <= hi * 2^26 + lo < 2^53   *)
(* (or hi = lo = e = 0 for 0.0); the two limbs keep every intermediate     *)
(* below 2^31.  int * float and float + float round to nearest, ties to    *)
(* even, as Python does; the values of math.log2 and math.log, which are   *)
(* library code, are tabulated (LogRows).  The int 0 that the code returns *)
(* or adds without calling a logarithm is ZeroInt.  A raised exception is  *)
(* the record [exc |-> class name].                                        *)
(***************************************************************************)
EXTENDS Integers, Sequences, FiniteSets, TLC

\* ------------------------------------------------------------------ bounds
\* Longest corpus (number of baskets) of the corpora of arbitrary baskets.
MaxBaskets == 3

\* Longest corpus of the corpora made of runs of equal baskets.
MaxGrouped == 8

\* Item labels that occur in baskets (Item, line 11).
Items == {"A", "B", "C"}

\* The labels passed as i and as j.  Every pair of labels is, up to renaming
\* the items of the corpus, (A, A) or (A, B).
FirstItems == {"A"}
SecondItems == {"A", "B"}

\* Basket = Set[Item] (line 12)
Basket == SUBSET Items

\* The corpora: List[Basket] of bounded length.
Corpora == UNION {[1..n -> Basket] : n \in 0..MaxBaskets}

\* [b] * n
Repeat(b, n) == [k \in 1..n |-> b]

\* Longer corpora, of four kinds of baskets, equal baskets adjacent: every
\* combination of the four cells of a table for A and B up to MaxGrouped.
GroupedCorpora ==
    {Repeat({"A", "B"}, n[1]) \o Repeat({"A"}, n[2])
         \o Repeat({"B"}, n[3]) \o Repeat({"C"}, n[4]) :
        n \in {m \in [1..4 -> 0..MaxGrouped] :
                  m[1] + m[2] + m[3] + m[4] <= MaxGrouped}}

\* ------------------------------------------------------ int / int division
RECURSIVE GCD(_, _)
GCD(a, b) == IF b = 0 THEN a ELSE GCD(b, a % b)

\* The rational n / d (d > 0) in lowest terms.
Rat(n, d) == LET g == GCD(n, d) IN [num |-> n \div g, den |-> d \div g]

\* Exceptions.
ZeroDivisionError == [exc |-> "ZeroDivisionError"]
ValueError == [exc |-> "ValueError"]
IsExc(v) == "exc" \in DOMAIN v

\* Faulty variant of TrueDiv: a zero divisor yields a value (as IEEE
\* arithmetic would) instead of raising.
TrueDiv_no_raise(a, b) == IF b = 0 THEN Rat(0, 1) ELSE Rat(a, b)

\* int / int: Python raises ZeroDivisionError on a zero divisor; otherwise
\* the quotient.
TrueDiv(a, b) == IF b = 0 THEN ZeroDivisionError ELSE Rat(a, b)

\* int / float, O / E: ZeroDivisionError on E = 0.0; otherwise the double
\* nearest to O / E, carried as its two operands.
DivByFloat(a, e) ==
    IF e.num = 0 THEN ZeroDivisionError ELSE [dividend |-> a, divisor |-> e]

\* ------------------------------------------------------------------ floats
Float(neg, e, hi, lo) ==
    [py |-> "float", neg |-> neg, e |-> e, hi |-> hi, lo |-> lo]

\* 0.0
FloatZero == Float(FALSE, 0, 0, 0)

\* The int literal 0.
ZeroInt == [py |-> "int", neg |-> FALSE, e |-> 0, hi |-> 0, lo |-> 0]

\* The low limb holds 26 bits.
Limb == 2^26

\* A natural number h * 2^26 + l wider than a significand.
Wide(h, l) == [h |-> h, l |-> l]

\* h * 2^26 + l with its last bit set when lost (the sticky bit).
Sticky(h, l, lost) == Wide(h, IF lost /\ l % 2 = 0 THEN l + 1 ELSE l)

\* w shifted right by d bits; the last bit of the result is set when a 1 was
\* shifted out.
ShiftRightSticky(w, d) ==
    IF d = 0 THEN w
    ELSE IF d >= 57 THEN Wide(0, IF w.h = 0 /\ w.l = 0 THEN 0 ELSE 1)
    ELSE IF d < 26
         THEN Sticky(w.h \div 2^d,
                     w.l \div 2^d + (w.h % 2^d) * 2^(26 - d),
                     w.l % 2^d # 0)
         ELSE Sticky((w.h \div 2^(d - 26)) \div Limb,
                     (w.h \div 2^(d - 26)) % Limb,
                     w.h % 2^(d - 26) # 0 \/ w.l # 0)

\* w * 2^e with w brought into [2^55, 2^56): a significand and three more
\* bits (guard, round, sticky).
RECURSIVE Normalised(_, _)
Normalised(w, e) ==
    IF w.h >= 2^30 THEN Normalised(ShiftRightSticky(w, 1), e + 1)
    ELSE IF w.h < 2^29
         THEN Normalised(Wide(2 * w.h + (2 * w.l) \div Limb, (2 * w.l) % Limb),
                         e - 1)
         ELSE [w |-> w, e |-> e]

\* The significand hi * 2^26 + lo + 1, renormalised when it reaches 2^53.
Successor(neg, e, hi, lo) ==
    IF lo + 1 < Limb THEN Float(neg, e, hi, lo + 1)
    ELSE IF hi + 1 < 2^27 THEN Float(neg, e, hi + 1, 0)
    ELSE Float(neg, e + 1, 2^26, 0)

\* Round to nearest, ties to even: up when the three dropped bits grs are
\* more than a half, or a half and the significand is odd.
RoundHalfEven(neg, e, hi, lo, grs) ==
    IF grs > 4 \/ (grs = 4 /\ lo % 2 = 1)
    THEN Successor(neg, e, hi, lo)
    ELSE Float(neg, e, hi, lo)

\* The three last bits of a normalised n dropped.
RoundNormalised(neg, n) ==
    RoundHalfEven(neg, n.e + 3, n.w.h \div 8,
                  n.w.l \div 8 + (n.w.h % 8) * 2^23, n.w.l % 8)

\* The double nearest to (-1)^neg * w * 2^e, ties to even.
Round(neg, w, e) ==
    IF w.h = 0 /\ w.l = 0 THEN FloatZero
    ELSE RoundNormalised(neg, Normalised(w, e))

\* 8 * significand of v
Times8(v) == Wide(8 * v.hi + (8 * v.lo) \div Limb, (8 * v.lo) % Limb)

\* |v| < |w| for two doubles other than 0.0
Smaller(v, w) ==
    \/ v.e < w.e
    \/ v.e = w.e /\ v.hi < w.hi
    \/ v.e = w.e /\ v.hi = w.hi /\ v.lo < w.lo

\* x + y and x - y (x >= y) of two wide numbers
WideSum(x, y) ==
    Wide(x.h + y.h + (x.l + y.l) \div Limb, (x.l + y.l) % Limb)
WideDifference(x, y) ==
    IF x.l >= y.l THEN Wide(x.h - y.h, x.l - y.l)
    ELSE Wide(x.h - y.h - 1, x.l + Limb - y.l)

\* a + b for |a| >= |b| > 0: b aligned to the exponent of a, the
\* significands added or subtracted, the result rounded.
AddOrdered(a, b) ==
    Round(a.neg,
          IF a.neg = b.neg
          THEN WideSum(Times8(a), ShiftRightSticky(Times8(b), a.e - b.e))
          ELSE WideDifference(Times8(a),
                              ShiftRightSticky(Times8(b), a.e - b.e)),
          a.e - 3)

\* float + float
FloatAdd(v, w) ==
    IF v.hi = 0 THEN (IF w.hi = 0 THEN FloatZero ELSE w)
    ELSE IF w.hi = 0 THEN v
    ELSE IF Smaller(v, w) THEN AddOrdered(w, v)
    ELSE AddOrdered(v, w)

\* math.log2(O / E) and math.log(O / E) as the C library returns them, for
\* the arguments that arise from the corpora of Init and InitSwap:
\* <<O, E.num, E.den, log2, log>>, a double written <<neg, e, hi, lo>>.
\* The library's result is within one unit in the last place of the exact
\* logarithm but is not always the nearest double, so the values are the
\* library's own and are not recomputed.
LogRows == <<
    <<1, 1, 10, <<FALSE, -51, 111465410, 24748913>>, <<FALSE, -51, 77261934, 62215446>>>>,
    <<1, 1, 9, <<FALSE, -51, 106365032, 60800360>>, <<FALSE, -51, 73726622, 44892939>>>>,
    <<1, 1, 8, <<FALSE, -51, 100663296, 0>>, <<FALSE, -51, 69774479, 54242163>>>>,
    <<1, 1, 7, <<FALSE, -51, 94199199, 55837741>>, <<FALSE, -52, 130587819, 36854359>>>>,
    <<1, 1, 6, <<FALSE, -51, 86736948, 30400180>>, <<FALSE, -52, 120242942, 36315138>>>>,
    <<1, 1, 5, <<FALSE, -51, 77910978, 24748913>>, <<FALSE, -52, 108007549, 65899827>>>>,
    <<1, 2, 9, <<FALSE, -51, 72810600, 60800360>>, <<FALSE, -52, 100936925, 31254814>>>>,
    <<1, 1, 4, <<FALSE, -51, 67108864, 0>>, <<FALSE, -52, 93032639, 49953263>>>>,
    <<1, 2, 7, <<FALSE, -52, 121289535, 44566618>>, <<FALSE, -52, 84071499, 45432160>>>>,
    <<1, 3, 10, <<FALSE, -52, 116565787, 55806331>>, <<FALSE, -52, 80797247, 12429089>>>>,
    <<1, 1, 3, <<FALSE, -52, 106365032, 60800360>>, <<FALSE, -52, 73726622, 44892939>>>>,
    <<1, 3, 8, <<FALSE, -52, 94961559, 6308503>>, <<FALSE, -53, 131644673, 60073912>>>>,
    <<1, 2, 5, <<FALSE, -52, 88713092, 49497827>>, <<FALSE, -53, 122982460, 14737528>>>>,
    <<1, 3, 7, <<FALSE, -52, 82033366, 50875122>>, <<FALSE, -53, 113722393, 51031706>>>>,
    <<1, 4, 9, <<FALSE, -52, 78512337, 54491857>>, <<FALSE, -53, 108841211, 12556364>>>>,
    <<1, 1, 2, <<FALSE, -52, 67108864, 0>>, <<FALSE, -53, 93032639, 49953263>>>>,
    <<1, 5, 9, <<FALSE, -53, 113816218, 9988059>>, <<FALSE, -53, 78891390, 47772099>>>>,
    <<1, 4, 7, <<FALSE, -53, 108361343, 22024371>>, <<FALSE, -53, 75110359, 40911056>>>>,
    <<1, 3, 5, <<FALSE, -53, 98913847, 44503797>>, <<FALSE, -53, 68561854, 42013778>>>>,
    <<1, 5, 8, <<FALSE, -53, 91009270, 35222075>>, <<FALSE, -54, 126165638, 36120271>>>>,
    <<1, 2, 3, <<FALSE, -53, 78512337, 54491857>>, <<FALSE, -54, 108841211, 12556364>>>>,
    <<1, 7, 10, <<FALSE, -53, 69064842, 9862418>>, <<FALSE, -54, 95744201, 14761807>>>>,
    <<1, 5, 7, <<FALSE, -54, 130305771, 47384026>>, <<FALSE, -54, 90321078, 18035855>>>>,
    <<1, 3, 4, <<FALSE, -54, 111410780, 25234013>>, <<FALSE, -54, 77224068, 20241297>>>>,
    <<1, 7, 9, <<FALSE, -54, 97326664, 39700954>>, <<FALSE, -54, 67461703, 10399478>>>>,
    <<1, 4, 5, <<FALSE, -54, 86416914, 63773579>>, <<FALSE, -55, 119799281, 60463650>>>>,
    <<1, 5, 6, <<FALSE, -54, 70607760, 45210134>>, <<FALSE, -55, 97883140, 31757941>>>>,
    <<1, 6, 7, <<FALSE, -55, 119396022, 4347789>>, <<FALSE, -55, 82759016, 4313771>>>>,
    <<1, 7, 8, <<FALSE, -55, 103425538, 46120240>>, <<FALSE, -55, 71689120, 36168826>>>>,
    <<1, 8, 9, <<FALSE, -55, 91227790, 33281672>>, <<FALSE, -56, 126468571, 36369126>>>>,
    <<1, 9, 10, <<FALSE, -55, 81606039, 27156625>>, <<FALSE, -56, 113129992, 17449313>>>>,
    <<1, 1, 1, <<FALSE, 0, 0, 0>>, <<FALSE, 0, 0, 0>>>>,
    <<1, 10, 9, <<TRUE, -55, 81606039, 27156627>>, <<TRUE, -56, 113129992, 17449317>>>>,
    <<1, 9, 8, <<TRUE, -55, 91227790, 33281675>>, <<TRUE, -56, 126468571, 36369130>>>>,
    <<1, 8, 7, <<TRUE, -55, 103425538, 46120242>>, <<TRUE, -55, 71689120, 36168828>>>>,
    <<1, 6, 5, <<TRUE, -54, 70607760, 45210134>>, <<TRUE, -55, 97883140, 31757941>>>>,
    <<1, 5, 4, <<TRUE, -54, 86416914, 63773578>>, <<TRUE, -55, 119799281, 60463648>>>>,
    <<1, 9, 7, <<TRUE, -54, 97326664, 39700960>>, <<TRUE, -54, 67461703, 10399482>>>>,
    <<1, 4, 3, <<TRUE, -54, 111410780, 25234014>>, <<TRUE, -54, 77224068, 20241298>>>>,
    <<1, 7, 5, <<TRUE, -54, 130305771, 47384027>>, <<TRUE, -54, 90321078, 18035855>>>>,
    <<1, 10, 7, <<TRUE, -53, 69064842, 9862419>>, <<TRUE, -54, 95744201, 14761808>>>>,
    <<1, 3, 2, <<TRUE, -53, 78512337, 54491858>>, <<TRUE, -54, 108841211, 12556365>>>>,
    <<1, 14, 9, <<TRUE, -53, 85554395, 47258387>>, <<TRUE, -54, 118603576, 22398185>>>>,
    <<1, 8, 5, <<TRUE, -53, 91009270, 35222075>>, <<TRUE, -54, 126165638, 36120270>>>>,
    <<1, 5, 3, <<TRUE, -53, 98913847, 44503797>>, <<TRUE, -53, 68561854, 42013778>>>>,
    <<1, 12, 7, <<TRUE, -53, 104368722, 32467485>>, <<TRUE, -53, 72342885, 48874820>>>>,
    <<1, 7, 4, <<TRUE, -53, 108361343, 22024372>>, <<TRUE, -53, 75110359, 40911057>>>>,
    <<1, 16, 9, <<TRUE, -53, 111410780, 25234014>>, <<TRUE, -53, 77224068, 20241298>>>>,
    <<1, 9, 5, <<TRUE, -53, 113816218, 9988060>>, <<TRUE, -53, 78891390, 47772099>>>>,
    <<1, 15, 8, <<TRUE, -53, 121720795, 19269783>>, <<TRUE, -53, 84370426, 4616879>>>>,
    <<1, 2, 1, <<TRUE, -52, 67108864, 0>>, <<TRUE, -53, 93032639, 49953263>>>>,
    <<1, 21, 10, <<TRUE, -52, 71832611, 55869152>>, <<TRUE, -53, 99581144, 48850542>>>>,
    <<1, 15, 7, <<TRUE, -52, 73788589, 65731569>>, <<TRUE, -53, 102292706, 13659085>>>>,
    <<1, 20, 9, <<TRUE, -52, 77309618, 62114834>>, <<TRUE, -53, 107173888, 52134428>>>>,
    <<1, 9, 4, <<TRUE, -52, 78512337, 54491857>>, <<TRUE, -53, 108841211, 12556364>>>>,
    <<1, 16, 7, <<TRUE, -52, 80037056, 22542246>>, <<TRUE, -53, 110954919, 58995470>>>>,
    <<1, 7, 3, <<TRUE, -52, 82033366, 50875122>>, <<TRUE, -53, 113722393, 51031706>>>>,
    <<1, 12, 5, <<TRUE, -52, 84760804, 11302533>>, <<TRUE, -53, 117503424, 57892748>>>>,
    <<1, 5, 2, <<TRUE, -52, 88713092, 49497826>>, <<TRUE, -53, 122982460, 14737527>>>>,
    <<1, 8, 3, <<TRUE, -52, 94961559, 6308504>>, <<TRUE, -53, 131644673, 60073912>>>>,
    <<1, 25, 9, <<TRUE, -52, 98913847, 44503797>>, <<TRUE, -52, 68561854, 42013778>>>>,
    <<1, 3, 1, <<TRUE, -52, 106365032, 60800361>>, <<TRUE, -52, 73726622, 44892939>>>>,
    <<1, 25, 8, <<TRUE, -52, 110317321, 31886789>>, <<TRUE, -52, 76466140, 23315328>>>>,
    <<1, 16, 5, <<TRUE, -52, 112613499, 17611037>>, <<TRUE, -52, 78057729, 34006699>>>>,
    <<1, 25, 7, <<TRUE, -52, 123245513, 54429036>>, <<TRUE, -52, 85427280, 27836432>>>>,
    <<1, 4, 1, <<TRUE, -51, 67108864, 0>>, <<TRUE, -52, 93032639, 49953263>>>>,
    <<1, 25, 6, <<TRUE, -51, 69085008, 19097647>>, <<TRUE, -52, 95772157, 28375653>>>>,
    <<1, 9, 2, <<TRUE, -51, 72810600, 60800361>>, <<TRUE, -52, 100936925, 31254814>>>>,
    <<1, 5, 1, <<TRUE, -51, 77910978, 24748913>>, <<TRUE, -52, 108007549, 65899827>>>>,
    <<1, 36, 7, <<TRUE, -51, 79274697, 4962620>>, <<TRUE, -52, 109898065, 35775918>>>>,
    <<1, 6, 1, <<TRUE, -51, 86736948, 30400180>>, <<TRUE, -52, 120242942, 36315138>>>>,
    <<1, 49, 8, <<TRUE, -51, 87735103, 44566618>>, <<TRUE, -52, 121626679, 32333256>>>>,
    <<1, 7, 1, <<TRUE, -51, 94199199, 55837741>>, <<TRUE, -52, 130587819, 36854360>>>>,
    <<1, 8, 1, <<TRUE, -51, 100663296, 0>>, <<TRUE, -51, 69774479, 54242163>>>>,
    <<2, 4, 11, <<FALSE, -51, 82524831, 417090>>, <<FALSE, -52, 114403707, 58806688>>>>,
    <<2, 2, 5, <<FALSE, -51, 77910978, 24748913>>, <<FALSE, -52, 108007549, 65899827>>>>,
    <<2, 4, 9, <<FALSE, -51, 72810600, 60800360>>, <<FALSE, -52, 100936925, 31254814>>>>,
    <<2, 1, 2, <<FALSE, -51, 67108864, 0>>, <<FALSE, -52, 93032639, 49953263>>>>,
    <<2, 6, 11, <<FALSE, -52, 125793493, 7142684>>, <<FALSE, -52, 87193405, 5335949>>>>,
    <<2, 4, 7, <<FALSE, -52, 121289535, 44566618>>, <<FALSE, -52, 84071499, 45432160>>>>,
    <<2, 3, 5, <<FALSE, -52, 116565787, 55806331>>, <<FALSE, -52, 80797247, 12429089>>>>,
    <<2, 2, 3, <<FALSE, -52, 106365032, 60800360>>, <<FALSE, -52, 73726622, 44892939>>>>,
    <<2, 8, 11, <<FALSE, -52, 97940798, 834180>>, <<FALSE, -52, 67887388, 275624>>>>,
    <<2, 3, 4, <<FALSE, -52, 94961559, 6308503>>, <<FALSE, -53, 131644673, 60073912>>>>,
    <<2, 4, 5, <<FALSE, -52, 88713092, 49497827>>, <<FALSE, -53, 122982460, 14737528>>>>,
    <<2, 9, 11, <<FALSE, -52, 86537324, 13451186>>, <<FALSE, -53, 119966204, 37948147>>>>,
    <<2, 6, 7, <<FALSE, -52, 82033366, 50875122>>, <<FALSE, -53, 113722393, 51031706>>>>,
    <<2, 8, 9, <<FALSE, -52, 78512337, 54491857>>, <<FALSE, -53, 108841211, 12556364>>>>,
    <<2, 9, 10, <<FALSE, -52, 77309618, 62114834>>, <<FALSE, -53, 107173888, 52134427>>>>,
    <<2, 10, 11, <<FALSE, -52, 76336569, 18445218>>, <<FALSE, -53, 105824955, 35766985>>>>,
    <<2, 1, 1, <<FALSE, -52, 67108864, 0>>, <<FALSE, -53, 93032639, 49953263>>>>,
    <<2, 12, 11, <<FALSE, -53, 117369258, 14285368>>, <<FALSE, -53, 81354170, 27827499>>>>,
    <<2, 10, 9, <<FALSE, -53, 113816218, 9988059>>, <<FALSE, -53, 78891390, 47772099>>>>,
    <<2, 9, 8, <<FALSE, -53, 111410780, 25234013>>, <<FALSE, -53, 77224068, 20241298>>>>,
    <<2, 8, 7, <<FALSE, -53, 108361343, 22024371>>, <<FALSE, -53, 75110359, 40911056>>>>,
    <<2, 6, 5, <<FALSE, -53, 98913847, 44503797>>, <<FALSE, -53, 68561854, 42013778>>>>,
    <<2, 5, 4, <<FALSE, -53, 91009270, 35222075>>, <<FALSE, -54, 126165638, 36120271>>>>,
    <<2, 14, 11, <<FALSE, -53, 87520252, 46752852>>, <<FALSE, -54, 121328832, 53498112>>>>,
    <<2, 9, 7, <<FALSE, -53, 85554395, 47258384>>, <<FALSE, -54, 118603576, 22398181>>>>,
    <<2, 4, 3, <<FALSE, -53, 78512337, 54491857>>, <<FALSE, -54, 108841211, 12556364>>>>,
    <<2, 15, 11, <<FALSE, -53, 74160800, 49507442>>, <<FALSE, -54, 102808699, 58977606>>>>,
    <<2, 7, 5, <<FALSE, -53, 69064842, 9862418>>, <<FALSE, -54, 95744201, 14761807>>>>,
    <<2, 10, 7, <<FALSE, -54, 130305771, 47384026>>, <<FALSE, -54, 90321078, 18035855>>>>,
    <<2, 16, 11, <<FALSE, -54, 123327736, 3336719>>, <<FALSE, -54, 85484272, 35413698>>>>,
    <<2, 3, 2, <<FALSE, -54, 111410780, 25234013>>, <<FALSE, -54, 77224068, 20241297>>>>,
    <<2, 14, 9, <<FALSE, -54, 97326664, 39700954>>, <<FALSE, -54, 67461703, 10399478>>>>,
    <<2, 8, 5, <<FALSE, -54, 86416914, 63773579>>, <<FALSE, -55, 119799281, 60463650>>>>,
    <<2, 18, 11, <<FALSE, -54, 77713840, 53804745>>, <<FALSE, -55, 107734259, 19088398>>>>,
    <<2, 5, 3, <<FALSE, -54, 70607760, 45210134>>, <<FALSE, -55, 97883140, 31757941>>>>,
    <<2, 12, 7, <<FALSE, -55, 119396022, 4347789>>, <<FALSE, -55, 82759016, 4313771>>>>,
    <<2, 7, 4, <<FALSE, -55, 103425538, 46120240>>, <<FALSE, -55, 71689120, 36168826>>>>,
    <<2, 16, 9, <<FALSE, -55, 91227790, 33281672>>, <<FALSE, -56, 126468571, 36369126>>>>,
    <<2, 9, 5, <<FALSE, -55, 81606039, 27156625>>, <<FALSE, -56, 113129992, 17449313>>>>,
    <<2, 20, 11, <<FALSE, -55, 73821642, 13344012>>, <<FALSE, -56, 102338526, 20727500>>>>,
    <<2, 15, 8, <<FALSE, -56, 99975461, 47168331>>, <<FALSE, -56, 69297709, 27146758>>>>,
    <<2, 21, 11, <<FALSE, -56, 72063319, 5196830>>, <<FALSE, -57, 99900972, 59098539>>>>,
    <<2, 2, 1, <<FALSE, 0, 0, 0>>, <<FALSE, 0, 0, 0>>>>,
    <<2, 21, 10, <<TRUE, -56, 75579965, 21491197>>, <<TRUE, -57, 104776079, 49465329>>>>,
    <<2, 15, 7, <<TRUE, -56, 106875615, 45072151>>, <<TRUE, -56, 74080531, 45190896>>>>,
    <<2, 24, 11, <<TRUE, -55, 67393879, 9967394>>, <<TRUE, -56, 93427754, 42788384>>>>,
    <<2, 20, 9, <<TRUE, -55, 81606039, 27156627>>, <<TRUE, -56, 113129992, 17449317>>>>,
    <<2, 9, 4, <<TRUE, -55, 91227790, 33281675>>, <<TRUE, -56, 126468571, 36369130>>>>,
    <<2, 25, 11, <<TRUE, -55, 99012187, 47094292>>, <<TRUE, -55, 68630018, 50099907>>>>,
    <<2, 16, 7, <<TRUE, -55, 103425538, 46120242>>, <<TRUE, -55, 71689120, 36168828>>>>,
    <<2, 7, 3, <<TRUE, -55, 119396022, 4347789>>, <<TRUE, -55, 82759016, 4313771>>>>,
    <<2, 12, 5, <<TRUE, -54, 70607760, 45210134>>, <<TRUE, -55, 97883140, 31757941>>>>,
    <<2, 5, 2, <<TRUE, -54, 86416914, 63773578>>, <<TRUE, -55, 119799281, 60463648>>>>,
    <<2, 28, 11, <<TRUE, -54, 93394950, 40712024>>, <<TRUE, -55, 129472893, 25707965>>>>,
    <<2, 18, 7, <<TRUE, -54, 97326664, 39700960>>, <<TRUE, -54, 67461703, 10399482>>>>,
    <<2, 21, 8, <<TRUE, -54, 105311906, 18814730>>, <<TRUE, -54, 72996650, 61580815>>>>,
    <<2, 8, 3, <<TRUE, -54, 111410780, 25234014>>, <<TRUE, -54, 77224068, 20241298>>>>,
    <<2, 30, 11, <<TRUE, -54, 120113854, 35202844>>, <<TRUE, -54, 83256579, 40928921>>>>,
    <<2, 25, 9, <<TRUE, -54, 127219934, 43797459>>, <<TRUE, -54, 88182139, 1039721>>>>,
    <<2, 20, 7, <<TRUE, -53, 69064842, 9862419>>, <<TRUE, -54, 95744201, 14761808>>>>,
    <<2, 3, 1, <<TRUE, -53, 78512337, 54491858>>, <<TRUE, -54, 108841211, 12556365>>>>,
    <<2, 28, 9, <<TRUE, -53, 85554395, 47258387>>, <<TRUE, -54, 118603576, 22398185>>>>,
    <<2, 25, 8, <<TRUE, -53, 86416914, 63773579>>, <<TRUE, -54, 119799281, 60463649>>>>,
    <<2, 16, 5, <<TRUE, -53, 91009270, 35222075>>, <<TRUE, -54, 126165638, 36120270>>>>,
    <<2, 10, 3, <<TRUE, -53, 98913847, 44503797>>, <<TRUE, -53, 68561854, 42013778>>>>,
    <<2, 25, 7, <<TRUE, -53, 112273299, 41749209>>, <<TRUE, -53, 77821921, 5719601>>>>,
    <<2, 4, 1, <<TRUE, -52, 67108864, 0>>, <<TRUE, -53, 93032639, 49953263>>>>,
    <<2, 25, 6, <<TRUE, -52, 71061152, 38195293>>, <<TRUE, -53, 98511675, 6798042>>>>,
    <<2, 9, 2, <<TRUE, -52, 78512337, 54491857>>, <<TRUE, -53, 108841211, 12556364>>>>,
    <<2, 5, 1, <<TRUE, -52, 88713092, 49497826>>, <<TRUE, -53, 122982460, 14737527>>>>,
    <<2, 36, 7, <<TRUE, -52, 91440530, 9925240>>, <<TRUE, -53, 126763491, 21598572>>>>,
    <<2, 6, 1, <<TRUE, -52, 106365032, 60800361>>, <<TRUE, -52, 73726622, 44892939>>>>,
    <<2, 49, 8, <<TRUE, -52, 108361343, 22024372>>, <<TRUE, -52, 75110359, 40911057>>>>,
    <<2, 7, 1, <<TRUE, -52, 121289535, 44566618>>, <<TRUE, -52, 84071499, 45432160>>>>,
    <<2, 8, 1, <<TRUE, -51, 67108864, 0>>, <<TRUE, -52, 93032639, 49953263>>>>,
    <<3, 3, 4, <<FALSE, -51, 67108864, 0>>, <<FALSE, -52, 93032639, 49953263>>>>,
    <<3, 9, 11, <<FALSE, -52, 125793493, 7142683>>, <<FALSE, -52, 87193405, 5335949>>>>,
    <<3, 9, 10, <<FALSE, -52, 116565787, 55806330>>, <<FALSE, -52, 80797247, 12429088>>>>,
    <<3, 1, 1, <<FALSE, -52, 106365032, 60800360>>, <<FALSE, -52, 73726622, 44892939>>>>,
    <<3, 12, 11, <<FALSE, -52, 97940798, 834180>>, <<FALSE, -52, 67887388, 275624>>>>,
    <<3, 9, 8, <<FALSE, -52, 94961559, 6308503>>, <<FALSE, -53, 131644673, 60073912>>>>,
    <<3, 6, 5, <<FALSE, -52, 88713092, 49497827>>, <<FALSE, -53, 122982460, 14737528>>>>,
    <<3, 5, 4, <<FALSE, -52, 84760804, 11302533>>, <<FALSE, -53, 117503424, 57892748>>>>,
    <<3, 9, 7, <<FALSE, -52, 82033366, 50875120>>, <<FALSE, -53, 113722393, 51031704>>>>,
    <<3, 4, 3, <<FALSE, -52, 78512337, 54491857>>, <<FALSE, -53, 108841211, 12556364>>>>,
    <<3, 15, 11, <<FALSE, -52, 76336569, 18445218>>, <<FALSE, -53, 105824955, 35766985>>>>,
    <<3, 16, 11, <<FALSE, -52, 70088102, 61634540>>, <<FALSE, -53, 97162741, 57539463>>>>,
    <<3, 3, 2, <<FALSE, -52, 67108864, 0>>, <<FALSE, -53, 93032639, 49953263>>>>,
    <<3, 8, 5, <<FALSE, -53, 121720795, 19269782>>, <<FALSE, -53, 84370426, 4616878>>>>,
    <<3, 18, 11, <<FALSE, -53, 117369258, 14285366>>, <<FALSE, -53, 81354170, 27827498>>>>,
    <<3, 5, 3, <<FALSE, -53, 113816218, 9988059>>, <<FALSE, -53, 78891390, 47772099>>>>,
    <<3, 12, 7, <<FALSE, -53, 108361343, 22024371>>, <<FALSE, -53, 75110359, 40911056>>>>,
    <<3, 7, 4, <<FALSE, -53, 104368722, 32467485>>, <<FALSE, -53, 72342885, 48874820>>>>,
    <<3, 16, 9, <<FALSE, -53, 101319285, 29257843>>, <<FALSE, -53, 70229177, 2435715>>>>,
    <<3, 9, 5, <<FALSE, -53, 98913847, 44503795>>, <<FALSE, -53, 68561854, 42013777>>>>,
    <<3, 20, 11, <<FALSE, -53, 96967748, 24273428>>, <<FALSE, -53, 67212921, 25646336>>>>,
    <<3, 15, 8, <<FALSE, -53, 91009270, 35222075>>, <<FALSE, -54, 126165638, 36120271>>>>,
    <<3, 21, 11, <<FALSE, -53, 87520252, 46752852>>, <<FALSE, -54, 121328832, 53498112>>>>,
    <<3, 2, 1, <<FALSE, -53, 78512337, 54491857>>, <<FALSE, -54, 108841211, 12556364>>>>,
    <<3, 25, 12, <<FALSE, -53, 70607760, 45210134>>, <<FALSE, -54, 97883140, 31757942>>>>,
    <<3, 21, 10, <<FALSE, -53, 69064842, 9862418>>, <<FALSE, -54, 95744201, 14761807>>>>,
    <<3, 15, 7, <<FALSE, -54, 130305771, 47384030>>, <<FALSE, -54, 90321078, 18035857>>>>,
    <<3, 24, 11, <<FALSE, -54, 123327736, 3336719>>, <<FALSE, -54, 85484272, 35413698>>>>,
    <<3, 20, 9, <<FALSE, -54, 116221655, 61850968>>, <<FALSE, -54, 80558713, 8194035>>>>,
    <<3, 9, 4, <<FALSE, -54, 111410780, 25234013>>, <<FALSE, -54, 77224068, 20241297>>>>,
    <<3, 25, 11, <<FALSE, -54, 107518581, 51882136>>, <<FALSE, -54, 74526201, 54615275>>>>,
    <<3, 16, 7, <<FALSE, -54, 105311906, 18814729>>, <<FALSE, -54, 72996650, 61580814>>>>,
    <<3, 7, 3, <<FALSE, -54, 97326664, 39700954>>, <<FALSE, -54, 67461703, 10399478>>>>,
    <<3, 12, 5, <<FALSE, -54, 86416914, 63773579>>, <<FALSE, -55, 119799281, 60463650>>>>,
    <<3, 5, 2, <<FALSE, -54, 70607760, 45210134>>, <<FALSE, -55, 97883140, 31757941>>>>,
    <<3, 28, 11, <<FALSE, -55, 127259450, 2325654>>, <<FALSE, -55, 88209528, 66513629>>>>,
    <<3, 18, 7, <<FALSE, -55, 119396022, 4347779>>, <<FALSE, -55, 82759016, 4313764>>>>,
    <<3, 21, 8, <<FALSE, -55, 103425538, 46120240>>, <<FALSE, -55, 71689120, 36168826>>>>,
    <<3, 8, 3, <<FALSE, -55, 91227790, 33281672>>, <<FALSE, -56, 126468571, 36369126>>>>,
    <<3, 30, 11, <<FALSE, -55, 73821642, 13344012>>, <<FALSE, -56, 102338526, 20727500>>>>,
    <<3, 25, 9, <<FALSE, -56, 119218963, 59418438>>, <<FALSE, -56, 82636288, 46066580>>>>,
    <<3, 20, 7, <<FALSE, -56, 75579965, 21491195>>, <<FALSE, -57, 104776079, 49465328>>>>,
    <<3, 35, 12, <<FALSE, -57, 87277997, 8745641>>, <<FALSE, -58, 120992995, 18226827>>>>,
    <<3, 3, 1, <<FALSE, 0, 0, 0>>, <<FALSE, 0, 0, 0>>>>,
    <<3, 28, 9, <<TRUE, -57, 112672926, 18482181>>, <<TRUE, -57, 78098921, 11625686>>>>,
    <<3, 25, 8, <<TRUE, -57, 126473234, 14289832>>, <<TRUE, -57, 87664565, 47713971>>>>,
    <<3, 16, 5, <<TRUE, -56, 99975461, 47168332>>, <<TRUE, -56, 69297709, 27146759>>>>,
    <<3, 10, 3, <<TRUE, -55, 81606039, 27156627>>, <<TRUE, -56, 113129992, 17449317>>>>,
    <<3, 24, 7, <<TRUE, -55, 103425538, 46120242>>, <<TRUE, -55, 71689120, 36168828>>>>,
    <<3, 7, 2, <<TRUE, -55, 119396022, 4347789>>, <<TRUE, -55, 82759016, 4313771>>>>,
    <<3, 32, 9, <<TRUE, -55, 131593770, 17186357>>, <<TRUE, -55, 91213850, 55852466>>>>,
    <<3, 25, 7, <<TRUE, -54, 67521923, 41623566>>, <<TRUE, -55, 93605261, 64874537>>>>,
    <<3, 15, 4, <<TRUE, -54, 86416914, 63773578>>, <<TRUE, -55, 119799281, 60463648>>>>,
    <<3, 35, 9, <<TRUE, -54, 100501030, 49306635>>, <<TRUE, -54, 69662006, 6519211>>>>,
    <<3, 4, 1, <<TRUE, -54, 111410780, 25234014>>, <<TRUE, -54, 77224068, 20241298>>>>,
    <<3, 25, 6, <<TRUE, -54, 127219934, 43797459>>, <<TRUE, -54, 88182139, 1039721>>>>,
    <<3, 9, 2, <<TRUE, -53, 78512337, 54491858>>, <<TRUE, -54, 108841211, 12556365>>>>,
    <<3, 5, 1, <<TRUE, -53, 98913847, 44503797>>, <<TRUE, -53, 68561854, 42013778>>>>,
    <<3, 36, 7, <<TRUE, -53, 104368722, 32467487>>, <<TRUE, -53, 72342885, 48874822>>>>,
    <<3, 6, 1, <<TRUE, -52, 67108864, 0>>, <<TRUE, -53, 93032639, 49953263>>>>,
    <<3, 49, 8, <<TRUE, -52, 69105174, 28332875>>, <<TRUE, -53, 95800113, 41989499>>>>,
    <<3, 7, 1, <<TRUE, -52, 82033366, 50875122>>, <<TRUE, -53, 113722393, 51031706>>>>,
    <<3, 8, 1, <<TRUE, -52, 94961559, 6308504>>, <<TRUE, -53, 131644673, 60073912>>>>,
    <<4, 16, 13, <<FALSE, -52, 114114577, 52675686>>, <<FALSE, -52, 79098197, 57204403>>>>,
    <<4, 4, 3, <<FALSE, -52, 106365032, 60800360>>, <<FALSE, -52, 73726622, 44892939>>>>,
    <<4, 16, 11, <<FALSE, -52, 97940798, 834180>>, <<FALSE, -52, 67887388, 275624>>>>,
    <<4, 20, 13, <<FALSE, -52, 92510349, 3177858>>, <<FALSE, -53, 128246575, 15406812>>>>,
    <<4, 8, 5, <<FALSE, -52, 88713092, 49497827>>, <<FALSE, -53, 122982460, 14737528>>>>,
    <<4, 5, 3, <<FALSE, -52, 84760804, 11302533>>, <<FALSE, -53, 117503424, 57892748>>>>,
    <<4, 16, 9, <<FALSE, -52, 78512337, 54491857>>, <<FALSE, -53, 108841211, 12556364>>>>,
    <<4, 20, 11, <<FALSE, -52, 76336569, 18445218>>, <<FALSE, -53, 105824955, 35766985>>>>,
    <<4, 24, 13, <<FALSE, -52, 74858408, 58984189>>, <<FALSE, -53, 103775790, 7467327>>>>,
    <<4, 25, 13, <<FALSE, -52, 70906120, 20788897>>, <<FALSE, -53, 98296754, 50622549>>>>,
    <<4, 2, 1, <<FALSE, -52, 67108864, 0>>, <<FALSE, -53, 93032639, 49953263>>>>,
    <<4, 25, 12, <<FALSE, -53, 126313150, 57827141>>, <<FALSE, -53, 87553604, 25999620>>>>,
    <<4, 28, 13, <<FALSE, -53, 119867812, 16218137>>, <<FALSE, -53, 83086036, 6388886>>>>,
    <<4, 24, 11, <<FALSE, -53, 117369258, 14285368>>, <<FALSE, -53, 81354170, 27827499>>>>,
    <<4, 20, 9, <<FALSE, -53, 113816218, 9988059>>, <<FALSE, -53, 78891390, 47772099>>>>,
    <<4, 25, 11, <<FALSE, -53, 109464681, 5003643>>, <<FALSE, -53, 75875135, 3873855>>>>,
    <<4, 16, 7, <<FALSE, -53, 108361343, 22024371>>, <<FALSE, -53, 75110359, 40911056>>>>,
    <<4, 30, 13, <<FALSE, -53, 106508360, 18972726>>, <<FALSE, -53, 73825969, 42683063>>>>,
    <<4, 7, 3, <<FALSE, -53, 104368722, 32467485>>, <<FALSE, -53, 72342885, 48874820>>>>,
    <<4, 12, 5, <<FALSE, -53, 98913847, 44503797>>, <<FALSE, -53, 68561854, 42013778>>>>,
    <<4, 32, 13, <<FALSE, -53, 94011427, 38242508>>, <<FALSE, -54, 130327511, 61802221>>>>,
    <<4, 5, 2, <<FALSE, -53, 91009270, 35222075>>, <<FALSE, -54, 126165638, 36120271>>>>,
    <<4, 28, 11, <<FALSE, -53, 87520252, 46752852>>, <<FALSE, -54, 121328832, 53498112>>>>,
    <<4, 8, 3, <<FALSE, -53, 78512337, 54491857>>, <<FALSE, -54, 108841211, 12556364>>>>,
    <<4, 35, 13, <<FALSE, -53, 76659354, 51440209>>, <<FALSE, -54, 106272431, 16100376>>>>,
    <<4, 30, 11, <<FALSE, -53, 74160800, 49507442>>, <<FALSE, -54, 102808699, 58977606>>>>,
    <<4, 36, 13, <<FALSE, -53, 71204479, 63476522>>, <<FALSE, -54, 98710369, 2378291>>>>,
    <<4, 25, 9, <<FALSE, -53, 70607760, 45210134>>, <<FALSE, -54, 97883140, 31757942>>>>,
    <<4, 20, 7, <<FALSE, -54, 130305771, 47384026>>, <<FALSE, -54, 90321078, 18035855>>>>,
    <<4, 35, 12, <<FALSE, -54, 122320530, 1161392>>, <<FALSE, -54, 84786130, 33963385>>>>,
    <<4, 3, 1, <<FALSE, -54, 111410780, 25234013>>, <<FALSE, -54, 77224068, 20241297>>>>,
    <<4, 40, 13, <<FALSE, -54, 101605940, 12711433>>, <<FALSE, -54, 70427870, 65124825>>>>,
    <<4, 28, 9, <<FALSE, -54, 97326664, 39700954>>, <<FALSE, -54, 67461703, 10399478>>>>,
    <<4, 25, 8, <<FALSE, -54, 95601626, 6670571>>, <<FALSE, -55, 132531995, 11776890>>>>,
    <<4, 16, 5, <<FALSE, -54, 86416914, 63773579>>, <<FALSE, -55, 119799281, 60463650>>>>,
    <<4, 42, 13, <<FALSE, -54, 82710948, 57670288>>, <<FALSE, -55, 114661722, 442815>>>>,
    <<4, 10, 3, <<FALSE, -54, 70607760, 45210134>>, <<FALSE, -55, 97883140, 31757941>>>>,
    <<4, 24, 7, <<FALSE, -55, 119396022, 4347789>>, <<FALSE, -55, 82759016, 4313771>>>>,
    <<4, 7, 2, <<FALSE, -55, 103425538, 46120240>>, <<FALSE, -55, 71689120, 36168826>>>>,
    <<4, 32, 9, <<FALSE, -55, 91227790, 33281672>>, <<FALSE, -56, 126468571, 36369126>>>>,
    <<4, 25, 7, <<FALSE, -55, 87777713, 34329756>>, <<FALSE, -56, 121685749, 18324980>>>>,
    <<4, 15, 4, <<FALSE, -56, 99975461, 47168331>>, <<FALSE, -56, 69297709, 27146758>>>>,
    <<4, 35, 9, <<FALSE, -57, 87277997, 8745641>>, <<FALSE, -58, 120992995, 18226827>>>>,
    <<4, 4, 1, <<FALSE, 0, 0, 0>>, <<FALSE, 0, 0, 0>>>>,
    <<4, 25, 6, <<TRUE, -57, 126473234, 14289832>>, <<TRUE, -57, 87664565, 47713971>>>>,
    <<4, 30, 7, <<TRUE, -56, 106875615, 45072151>>, <<TRUE, -56, 74080531, 45190896>>>>,
    <<4, 35, 8, <<TRUE, -55, 69408291, 14318053>>, <<TRUE, -56, 96220322, 48589646>>>>,
    <<4, 40, 9, <<TRUE, -55, 81606039, 27156627>>, <<TRUE, -56, 113129992, 17449317>>>>,
    <<4, 9, 2, <<TRUE, -55, 91227790, 33281675>>, <<TRUE, -56, 126468571, 36369130>>>>,
    <<4, 14, 3, <<TRUE, -55, 119396022, 4347789>>, <<TRUE, -55, 82759016, 4313771>>>>,
    <<4, 5, 1, <<TRUE, -54, 86416914, 63773578>>, <<TRUE, -55, 119799281, 60463648>>>>,
    <<4, 36, 7, <<TRUE, -54, 97326664, 39700960>>, <<TRUE, -54, 67461703, 10399482>>>>,
    <<4, 6, 1, <<TRUE, -53, 78512337, 54491858>>, <<TRUE, -54, 108841211, 12556365>>>>,
    <<4, 49, 8, <<TRUE, -53, 82504958, 44048744>>, <<TRUE, -54, 114376158, 63737700>>>>,
    <<4, 7, 1, <<TRUE, -53, 108361343, 22024372>>, <<TRUE, -53, 75110359, 40911057>>>>,
    <<4, 8, 1, <<TRUE, -52, 67108864, 0>>, <<TRUE, -53, 93032639, 49953263>>>>,
    <<5, 25, 14, <<FALSE, -52, 99685306, 62177655>>, <<FALSE, -52, 69096589, 29485595>>>>,
    <<5, 25, 13, <<FALSE, -52, 92510349, 3177859>>, <<FALSE, -53, 128246575, 15406813>>>>,
    <<5, 25, 12, <<FALSE, -52, 84760804, 11302533>>, <<FALSE, -53, 117503424, 57892748>>>>,
    <<5, 15, 7, <<FALSE, -52, 82033366, 50875122>>, <<FALSE, -53, 113722393, 51031706>>>>,
    <<5, 25, 11, <<FALSE, -52, 76336569, 18445216>>, <<FALSE, -53, 105824955, 35766983>>>>,
    <<5, 30, 13, <<FALSE, -52, 74858408, 58984190>>, <<FALSE, -53, 103775790, 7467329>>>>,
    <<5, 5, 2, <<FALSE, -52, 67108864, 0>>, <<FALSE, -53, 93032639, 49953263>>>>,
    <<5, 18, 7, <<FALSE, -53, 128762853, 12036309>>, <<FALSE, -53, 89251608, 43092219>>>>,
    <<5, 35, 13, <<FALSE, -53, 119867812, 16218135>>, <<FALSE, -53, 83086036, 6388885>>>>,
    <<5, 30, 11, <<FALSE, -53, 117369258, 14285368>>, <<FALSE, -53, 81354170, 27827499>>>>,
    <<5, 36, 13, <<FALSE, -53, 114412937, 28254448>>, <<FALSE, -53, 79305004, 66636706>>>>,
    <<5, 25, 9, <<FALSE, -53, 113816218, 9988061>>, <<FALSE, -53, 78891390, 47772100>>>>,
    <<5, 20, 7, <<FALSE, -53, 108361343, 22024371>>, <<FALSE, -53, 75110359, 40911056>>>>,
    <<5, 35, 12, <<FALSE, -53, 104368722, 32467487>>, <<FALSE, -53, 72342885, 48874822>>>>,
    <<5, 3, 1, <<FALSE, -53, 98913847, 44503797>>, <<FALSE, -53, 68561854, 42013778>>>>,
    <<5, 40, 13, <<FALSE, -53, 94011427, 38242508>>, <<FALSE, -54, 130327511, 61802221>>>>,
    <<5, 25, 8, <<FALSE, -53, 91009270, 35222075>>, <<FALSE, -54, 126165638, 36120271>>>>,
    <<5, 45, 14, <<FALSE, -53, 85554395, 47258386>>, <<FALSE, -54, 118603576, 22398183>>>>,
    <<5, 42, 13, <<FALSE, -53, 84563931, 60721933>>, <<FALSE, -54, 117230501, 64007664>>>>,
    <<5, 10, 3, <<FALSE, -53, 78512337, 54491857>>, <<FALSE, -54, 108841211, 12556364>>>>,
    <<5, 24, 7, <<FALSE, -53, 73057462, 66528169>>, <<FALSE, -54, 101279148, 65943143>>>>,
    <<5, 7, 2, <<FALSE, -53, 69064842, 9862418>>, <<FALSE, -54, 95744201, 14761807>>>>,
    <<5, 25, 7, <<FALSE, -54, 130305771, 47384026>>, <<FALSE, -54, 90321078, 18035855>>>>,
    <<5, 15, 4, <<FALSE, -54, 111410780, 25234013>>, <<FALSE, -54, 77224068, 20241297>>>>,
    <<5, 35, 9, <<FALSE, -54, 97326664, 39700959>>, <<FALSE, -54, 67461703, 10399481>>>>,
    <<5, 4, 1, <<FALSE, -54, 86416914, 63773579>>, <<FALSE, -55, 119799281, 60463650>>>>,
    <<5, 25, 6, <<FALSE, -54, 70607760, 45210134>>, <<FALSE, -55, 97883140, 31757941>>>>,
    <<5, 30, 7, <<FALSE, -55, 119396022, 4347789>>, <<FALSE, -55, 82759016, 4313771>>>>,
    <<5, 35, 8, <<FALSE, -55, 103425538, 46120240>>, <<FALSE, -55, 71689120, 36168826>>>>,
    <<5, 40, 9, <<FALSE, -55, 91227790, 33281672>>, <<FALSE, -56, 126468571, 36369126>>>>,
    <<5, 9, 2, <<FALSE, -55, 81606039, 27156625>>, <<FALSE, -56, 113129992, 17449313>>>>,
    <<5, 14, 3, <<FALSE, -56, 106875615, 45072149>>, <<FALSE, -56, 74080531, 45190895>>>>,
    <<5, 5, 1, <<FALSE, 0, 0, 0>>, <<FALSE, 0, 0, 0>>>>,
    <<5, 36, 7, <<TRUE, -57, 87277997, 8745643>>, <<TRUE, -58, 120992995, 18226830>>>>,
    <<5, 21, 4, <<TRUE, -56, 75579965, 21491197>>, <<TRUE, -57, 104776079, 49465329>>>>,
    <<5, 16, 3, <<TRUE, -56, 99975461, 47168332>>, <<TRUE, -56, 69297709, 27146759>>>>,
    <<5, 49, 9, <<TRUE, -56, 131916428, 30732281>>, <<TRUE, -56, 91437500, 30545503>>>>,
    <<5, 6, 1, <<TRUE, -54, 70607760, 45210134>>, <<TRUE, -55, 97883140, 31757941>>>>,
    <<5, 49, 8, <<TRUE, -54, 78593002, 24323906>>, <<TRUE, -55, 108953035, 67011747>>>>,
    <<5, 7, 1, <<TRUE, -54, 130305771, 47384027>>, <<TRUE, -54, 90321078, 18035855>>>>,
    <<5, 8, 1, <<TRUE, -53, 91009270, 35222075>>, <<TRUE, -54, 126165638, 36120270>>>>,
    <<6, 12, 5, <<FALSE, -52, 88713092, 49497827>>, <<FALSE, -53, 122982460, 14737528>>>>,
    <<6, 18, 7, <<FALSE, -52, 82033366, 50875120>>, <<FALSE, -53, 113722393, 51031704>>>>,
    <<6, 36, 13, <<FALSE, -52, 74858408, 58984189>>, <<FALSE, -53, 103775790, 7467327>>>>,
    <<6, 14, 5, <<FALSE, -52, 73788589, 65731569>>, <<FALSE, -53, 102292706, 13659085>>>>,
    <<6, 3, 1, <<FALSE, -52, 67108864, 0>>, <<FALSE, -53, 93032639, 49953263>>>>,
    <<6, 16, 5, <<FALSE, -53, 121720795, 19269782>>, <<FALSE, -53, 84370426, 4616878>>>>,
    <<6, 42, 13, <<FALSE, -53, 119867812, 16218137>>, <<FALSE, -53, 83086036, 6388886>>>>,
    <<6, 49, 15, <<FALSE, -53, 117728174, 29712897>>, <<FALSE, -53, 81602952, 12580643>>>>,
    <<6, 36, 11, <<FALSE, -53, 117369258, 14285366>>, <<FALSE, -53, 81354170, 27827498>>>>,
    <<6, 24, 7, <<FALSE, -53, 108361343, 22024371>>, <<FALSE, -53, 75110359, 40911056>>>>,
    <<6, 7, 2, <<FALSE, -53, 104368722, 32467485>>, <<FALSE, -53, 72342885, 48874820>>>>,
    <<6, 18, 5, <<FALSE, -53, 98913847, 44503795>>, <<FALSE, -53, 68561854, 42013777>>>>,
    <<6, 56, 15, <<FALSE, -53, 91871789, 51737269>>, <<FALSE, -54, 127361344, 7076873>>>>,
    <<6, 4, 1, <<FALSE, -53, 78512337, 54491857>>, <<FALSE, -54, 108841211, 12556364>>>>,
    <<6, 9, 2, <<FALSE, -54, 111410780, 25234013>>, <<FALSE, -54, 77224068, 20241297>>>>,
    <<6, 14, 3, <<FALSE, -54, 97326664, 39700954>>, <<FALSE, -54, 67461703, 10399478>>>>,
    <<6, 36, 7, <<FALSE, -55, 119396022, 4347779>>, <<FALSE, -55, 82759016, 4313764>>>>,
    <<6, 21, 4, <<FALSE, -55, 103425538, 46120240>>, <<FALSE, -55, 71689120, 36168826>>>>,
    <<6, 16, 3, <<FALSE, -55, 91227790, 33281672>>, <<FALSE, -56, 126468571, 36369126>>>>,
    <<6, 49, 9, <<FALSE, -55, 75257307, 7945259>>, <<FALSE, -56, 104328780, 32970372>>>>,
    <<6, 6, 1, <<FALSE, 0, 0, 0>>, <<FALSE, 0, 0, 0>>>>,
    <<6, 49, 8, <<TRUE, -58, 127763867, 1364677>>, <<TRUE, -58, 88559164, 13594992>>>>,
    <<6, 56, 9, <<TRUE, -57, 112672926, 18482181>>, <<TRUE, -57, 78098921, 11625686>>>>,
    <<6, 7, 1, <<TRUE, -55, 119396022, 4347789>>, <<TRUE, -55, 82759016, 4313771>>>>,
    <<6, 8, 1, <<TRUE, -54, 111410780, 25234014>>, <<TRUE, -54, 77224068, 20241298>>>>,
    <<7, 49, 16, <<FALSE, -52, 80037056, 22542246>>, <<FALSE, -53, 110954919, 58995470>>>>,
    <<7, 49, 15, <<FALSE, -52, 73788589, 65731569>>, <<FALSE, -53, 102292706, 13659085>>>>,
    <<7, 7, 2, <<FALSE, -52, 67108864, 0>>, <<FALSE, -53, 93032639, 49953263>>>>,
    <<7, 56, 15, <<FALSE, -53, 121720795, 19269782>>, <<FALSE, -53, 84370426, 4616878>>>>,
    <<7, 49, 13, <<FALSE, -53, 119867812, 16218137>>, <<FALSE, -53, 83086036, 6388886>>>>,
    <<7, 63, 16, <<FALSE, -53, 111410780, 25234013>>, <<FALSE, -53, 77224068, 20241298>>>>,
    <<7, 4, 1, <<FALSE, -53, 108361343, 22024371>>, <<FALSE, -53, 75110359, 40911056>>>>,
    <<7, 49, 12, <<FALSE, -53, 104368722, 32467487>>, <<FALSE, -53, 72342885, 48874822>>>>,
    <<7, 49, 11, <<FALSE, -53, 87520252, 46752854>>, <<FALSE, -54, 121328832, 53498115>>>>,
    <<7, 49, 10, <<FALSE, -53, 69064842, 9862416>>, <<FALSE, -54, 95744201, 14761804>>>>,
    <<7, 49, 9, <<FALSE, -54, 97326664, 39700954>>, <<FALSE, -54, 67461703, 10399478>>>>,
    <<7, 49, 8, <<FALSE, -55, 103425538, 46120240>>, <<FALSE, -55, 71689120, 36168826>>>>,
    <<7, 56, 9, <<FALSE, -55, 91227790, 33281672>>, <<FALSE, -56, 126468571, 36369126>>>>,
    <<7, 7, 1, <<FALSE, 0, 0, 0>>, <<FALSE, 0, 0, 0>>>>,
    <<7, 64, 9, <<TRUE, -58, 97581985, 35599702>>, <<TRUE, -58, 67638678, 9656391>>>>,
    <<7, 8, 1, <<TRUE, -55, 103425538, 46120242>>, <<TRUE, -55, 71689120, 36168828>>>>,
    <<8, 64, 17, <<FALSE, -52, 72978395, 61641009>>, <<FALSE, -53, 101169538, 50024474>>>>,
    <<8, 4, 1, <<FALSE, -52, 67108864, 0>>, <<FALSE, -53, 93032639, 49953263>>>>,
    <<8, 72, 17, <<FALSE, -53, 123149844, 14298305>>, <<FALSE, -53, 85360967, 20312509>>>>,
    <<8, 64, 15, <<FALSE, -53, 121720795, 19269782>>, <<FALSE, -53, 84370426, 4616878>>>>,
    <<8, 32, 7, <<FALSE, -53, 108361343, 22024371>>, <<FALSE, -53, 75110359, 40911056>>>>,
    <<8, 64, 13, <<FALSE, -53, 94011427, 38242508>>, <<FALSE, -54, 130327511, 61802221>>>>,
    <<8, 16, 3, <<FALSE, -53, 78512337, 54491857>>, <<FALSE, -54, 108841211, 12556364>>>>,
    <<8, 64, 11, <<FALSE, -54, 123327736, 3336719>>, <<FALSE, -54, 85484272, 35413698>>>>,
    <<8, 32, 5, <<FALSE, -54, 86416914, 63773579>>, <<FALSE, -55, 119799281, 60463650>>>>,
    <<8, 64, 9, <<FALSE, -55, 91227790, 33281672>>, <<FALSE, -56, 126468571, 36369126>>>>,
    <<8, 8, 1, <<FALSE, 0, 0, 0>>, <<FALSE, 0, 0, 0>>>>,
    <<9, 9, 2, <<FALSE, -52, 67108864, 0>>, <<FALSE, -53, 93032639, 49953263>>>>,
    <<9, 81, 17, <<FALSE, -53, 123149844, 14298305>>, <<FALSE, -53, 85360967, 20312509>>>>,
    <<9, 81, 16, <<FALSE, -53, 111410780, 25234013>>, <<FALSE, -53, 77224068, 20241298>>>>,
    <<9, 27, 5, <<FALSE, -53, 98913847, 44503795>>, <<FALSE, -53, 68561854, 42013777>>>>,
    <<9, 81, 14, <<FALSE, -53, 85554395, 47258386>>, <<FALSE, -54, 118603576, 22398183>>>>,
    <<9, 81, 13, <<FALSE, -53, 71204479, 63476522>>, <<FALSE, -54, 98710369, 2378291>>>>,
    <<9, 27, 4, <<FALSE, -54, 111410780, 25234013>>, <<FALSE, -54, 77224068, 20241297>>>>,
    <<9, 81, 11, <<FALSE, -54, 77713840, 53804749>>, <<FALSE, -55, 107734259, 19088405>>>>,
    <<9, 81, 10, <<FALSE, -55, 81606039, 27156625>>, <<FALSE, -56, 113129992, 17449313>>>>,
    <<9, 9, 1, <<FALSE, 0, 0, 0>>, <<FALSE, 0, 0, 0>>>>
>>

\* The rows as a function of <<O, E.num, E.den>>.
Keyed(rows) ==
    [k \in {<<rows[n][1], rows[n][2], rows[n][3]>> : n \in 1..Len(rows)} |->
        rows[CHOOSE n \in 1..Len(rows) :
                 <<rows[n][1], rows[n][2], rows[n][3]>> = k]]

LogTable == Keyed(LogRows)

LogRow(x) == LogTable[<<x.dividend, x.divisor.num, x.divisor.den>>]

\* The double written <<neg, e, hi, lo>>.
Double(t) == Float(t[1], t[2], t[3], t[4])

\* math.log2(x), math.log(x): ValueError unless x > 0.
MathLog2(x) ==
    IF x.dividend <= 0 THEN ValueError
    ELSE Double(LogRow(x)[4])
MathLog(x) ==
    IF x.dividend <= 0 THEN ValueError
    ELSE Double(LogRow(x)[5])

\* O * v for an observed count O >= 1 and a float v.
Times(O, v) == Round(v.neg, Wide(O * v.hi + (O * v.lo) \div Limb,
                                 (O * v.lo) % Limb), v.e)

\* 2 * v
Twice(v) == IF v.hi = 0 THEN v ELSE [v EXCEPT !.e = @ + 1]

\* v + w: int + int is an int, anything else a float.
Plus(v, w) ==
    IF v.py = "int" /\ w.py = "int" THEN ZeroInt
    ELSE FloatAdd(v, w)

\* -v
Negated(v) == IF v.hi = 0 THEN v ELSE [v EXCEPT !.neg = ~@]

\* -------------------------------------------------------------- counting
\* sum(list of ints)
RECURSIVE Sum(_)
Sum(s) == IF s = <<>> THEN 0 ELSE Head(s) + Sum(Tail(s))

\* [1 for b in s]
Ones(s) == [k \in 1..Len(s) |-> 1]

\* [len(b) for b in s]
Lens(s) == [k \in 1..Len(s) |-> Cardinality(s[k])]

\* ------------------------------------------------------- ContingencyTable
\* how many times i and j appear in the same basket
O_11(i, j, baskets) ==
    Sum(Ones(SelectSeq(baskets, LAMBDA b : i \in b /\ j \in b)))

\* Faulty variant of O_12: the "and j not in b" conjunct forgotten.
O_12_without_j_dropped(i, j, baskets) ==
    Sum(Ones(SelectSeq(baskets, LAMBDA b : i \in b)))

\* how many times i appears without j
O_12(i, j, baskets) ==
    Sum(Ones(SelectSeq(baskets, LAMBDA b : i \in b /\ j \notin b)))

\* Faulty variant of O_21: the predicate of O_12 pasted unchanged.
O_21_pasted(i, j, baskets) ==
    Sum(Ones(SelectSeq(baskets, LAMBDA b : i \in b /\ j \notin b)))

\* how many times j appears without i
O_21(i, j, baskets) ==
    Sum(Ones(SelectSeq(baskets, LAMBDA b : i \notin b /\ j \in b)))

\* Faulty variant of O_22: "or" for "and".
O_22_or(i, j, baskets) ==
    Sum(Ones(SelectSeq(baskets, LAMBDA b : i \notin b \/ j \notin b)))

\* how many baskets without i or j
O_22(i, j, baskets) ==
    Sum(Ones(SelectSeq(baskets, LAMBDA b : i \notin b /\ j \notin b)))

\* Totals: self.N = self.C_1 + self.C_2
Total(C_1, C_2) == C_1 + C_2

\* Faulty variant of Expectation: floor division (//) for true division.
Expectation_floordiv(R, C, N) ==
    IF N = 0 THEN ZeroDivisionError ELSE Rat((R * C) \div N, 1)

\* Faulty variant of Expectation: the row marginal used twice.
Expectation_row_twice(R, C, N) == TrueDiv(R * R, N)

\* Expectations under the null hypothesis: R * C / N
Expectation(R, C, N) == TrueDiv(R * C, N)

\* ContingencyTable.__init__: the constructed object, or the exception that
\* leaves the constructor (the first division that raises).
ContingencyTable(i, j, baskets) ==
    LET o11 == O_11(i, j, baskets)
        o12 == O_12(i, j, baskets)
        o21 == O_21(i, j, baskets)
        o22 == O_22(i, j, baskets)
        c1 == o11 + o21
        c2 == o12 + o22
        r1 == o11 + o12
        r2 == o21 + o22
        n == Total(c1, c2)
        e11 == Expectation(r1, c1, n)
        e21 == Expectation(r2, c1, n)
        e12 == Expectation(r1, c2, n)
        e22 == Expectation(r2, c2, n)
    IN  IF IsExc(e11) THEN e11
        ELSE IF IsExc(e21) THEN e21
        ELSE IF IsExc(e12) THEN e12
        ELSE IF IsExc(e22) THEN e22
        ELSE [i |-> i, j |-> j, baskets |-> baskets,
              O_11 |-> o11, O_12 |-> o12, O_21 |-> o21, O_22 |-> o22,
              C_1 |-> c1, C_2 |-> c2, R_1 |-> r1, R_2 |-> r2, N |-> n,
              E_11 |-> e11, E_21 |-> e21, E_12 |-> e12, E_22 |-> e22]

\* Faulty variant of Term2: the "if O > 0" guard missing.
Term2_unguarded(O, E) ==
    LET q == DivByFloat(O, E)
    IN  IF IsExc(q) THEN q
        ELSE LET l == MathLog2(q)
             IN  IF IsExc(l) THEN l ELSE Times(O, l)

\* One element of the sum of mutual_information:
\* O * math.log2(O / E) if O > 0 else 0
Term2(O, E) ==
    IF O > 0
    THEN LET q == DivByFloat(O, E)
         IN  IF IsExc(q) THEN q
             ELSE LET l == MathLog2(q)
                  IN  IF IsExc(l) THEN l ELSE Times(O, l)
    ELSE ZeroInt

\* One element of the sum of log_likelihood:
\* O * math.log(O / E) if O > 0 else 0
TermLn(O, E) ==
    IF O > 0
    THEN LET q == DivByFloat(O, E)
         IN  IF IsExc(q) THEN q
             ELSE LET l == MathLog(q)
                  IN  IF IsExc(l) THEN l ELSE Times(O, l)
    ELSE ZeroInt

\* x11 + x12 + x21 + x22, the terms evaluated in this order and added from
\* left to right; the first exception leaves the method.
SumOfTerms(x11, x12, x21, x22) ==
    IF IsExc(x11) THEN x11
    ELSE IF IsExc(x12) THEN x12
    ELSE IF IsExc(x21) THEN x21
    ELSE IF IsExc(x22) THEN x22
    ELSE Plus(Plus(Plus(x11, x12), x21), x22)

\* ContingencyTable.mutual_information
mutual_information(self) ==
    SumOfTerms(Term2(self.O_11, self.E_11),
               Term2(self.O_12, self.E_12),
               Term2(self.O_21, self.E_21),
               Term2(self.O_22, self.E_22))

\* ContingencyTable.log_likelihood
log_likelihood(self) ==
    LET s == SumOfTerms(TermLn(self.O_11, self.E_11),
                        TermLn(self.O_12, self.E_12),
                        TermLn(self.O_21, self.E_21),
                        TermLn(self.O_22, self.E_22))
    IN  IF IsExc(s) THEN s ELSE Twice(s)

\* ContingencyTable.__str__: the fields the f-string renders.
Str(self) ==
    [i |-> self.i, j |-> self.j,
     O_11 |-> self.O_11, O_12 |-> self.O_12, R_1 |-> self.R_1,
     O_21 |-> self.O_21, O_22 |-> self.O_22, R_2 |-> self.R_2,
     C_1 |-> self.C_1, C_2 |-> self.C_2, N |-> self.N,
     E_11 |-> self.E_11, E_12 |-> self.E_12,
     E_21 |-> self.E_21, E_22 |-> self.E_22]

\* ---------------------------------------------- local_mutual_information
\* Faulty variant of OccurrenceTotal: the number of baskets.
OccurrenceTotal_basket_count(baskets) == Len(baskets)

\* N = sum([len(b) for b in baskets])
OccurrenceTotal(baskets) == Sum(Lens(baskets))

\* Faulty variant of local_mutual_information: the sign of the result
\* inverted (the logarithm of E / O).
local_mutual_information_inverted(i, j, baskets) ==
    LET O == Sum(Ones(SelectSeq(baskets, LAMBDA b : i \in b /\ j \in b)))
    IN  IF O = 0 THEN ZeroInt
        ELSE LET freq_i == Sum(Ones(SelectSeq(baskets, LAMBDA b : i \in b)))
                 freq_j == Sum(Ones(SelectSeq(baskets, LAMBDA b : j \in b)))
                 N == OccurrenceTotal(baskets)
                 E == TrueDiv(freq_i * freq_j, N)
             IN  IF IsExc(E) THEN E
                 ELSE LET q == DivByFloat(O, E)
                      IN  IF IsExc(q) THEN q ELSE Negated(MathLog2(q))

local_mutual_information(i, j, baskets) ==
    LET O == Sum(Ones(SelectSeq(baskets, LAMBDA b : i \in b /\ j \in b)))
    IN  IF O = 0 THEN ZeroInt
        ELSE LET freq_i == Sum(Ones(SelectSeq(baskets, LAMBDA b : i \in b)))
                 freq_j == Sum(Ones(SelectSeq(baskets, LAMBDA b : j \in b)))
                 N == OccurrenceTotal(baskets)
                 E == TrueDiv(freq_i * freq_j, N)
             IN  IF IsExc(E) THEN E
                 ELSE LET q == DivByFloat(O, E)
                      IN  IF IsExc(q) THEN q ELSE MathLog2(q)

\* ------------------------------------------------------------- the state
VARIABLES
    baskets,    \* the corpus passed to the functions
    i, j,       \* the two item labels passed to the functions
    ct,         \* (i, j) -> the ContingencyTable object built for it
    gmi,        \* (i, j) -> what mutual_information() last returned
    ll,         \* (i, j) -> what log_likelihood() last returned
    rendered,   \* (i, j) -> what __str__() last returned
    lmi,        \* (i, j) -> what local_mutual_information last returned
    raised      \* the exception that left a call, if any

vars == <<baskets, i, j, ct, gmi, ll, rendered, lmi, raised>>

NoExc == [exc |-> "none"]
EmptyDict == <<>>

\* d[k] = v
Put(d, k, v) == [x \in DOMAIN d \cup {k} |-> IF x = k THEN v ELSE d[x]]

NothingCalled ==
    /\ ct = EmptyDict
    /\ gmi = EmptyDict
    /\ ll = EmptyDict
    /\ rendered = EmptyDict
    /\ lmi = EmptyDict
    /\ raised = NoExc

\* Any corpus of up to MaxBaskets baskets or a corpus of up to MaxGrouped
\* baskets in runs, the pair (A, A) or (A, B).
Init ==
    /\ baskets \in Corpora \cup GroupedCorpora
    /\ i \in FirstItems
    /\ j \in SecondItems
    /\ NothingCalled

\* A corpus of up to MaxGrouped baskets in runs, the pair (A, B).
InitSwap ==
    /\ baskets \in GroupedCorpora
    /\ i = "A"
    /\ j = "B"
    /\ NothingCalled

\* ContingencyTable(p[1], p[2], baskets)
Construct(p) ==
    /\ raised = NoExc
    /\ LET t == ContingencyTable(p[1], p[2], baskets)
       IN  IF IsExc(t)
           THEN /\ raised' = t
                /\ ct' = ct
           ELSE /\ ct' = Put(ct, p, t)
                /\ raised' = raised
    /\ UNCHANGED <<baskets, i, j, gmi, ll, rendered, lmi>>

\* ct[p].mutual_information()
MutualInformation(p) ==
    /\ raised = NoExc
    /\ p \in DOMAIN ct
    /\ LET v == mutual_information(ct[p])
       IN  IF IsExc(v)
           THEN /\ raised' = v
                /\ gmi' = gmi
           ELSE /\ gmi' = Put(gmi, p, v)
                /\ raised' = raised
    /\ UNCHANGED <<baskets, i, j, ct, ll, rendered, lmi>>

\* Faulty variant of LogLikelihood: the factor 2 of the result also applied,
\* in place, to the stored total N.
LogLikelihood_in_place(p) ==
    /\ raised = NoExc
    /\ p \in DOMAIN ct
    /\ LET v == log_likelihood(ct[p])
       IN  /\ ct' = [ct EXCEPT ![p].N = 2 * @]
           /\ IF IsExc(v)
              THEN /\ raised' = v
                   /\ ll' = ll
              ELSE /\ ll' = Put(ll, p, v)
                   /\ raised' = raised
    /\ UNCHANGED <<baskets, i, j, gmi, rendered, lmi>>

\* ct[p].log_likelihood()
LogLikelihood(p) ==
    /\ raised = NoExc
    /\ p \in DOMAIN ct
    /\ LET v == log_likelihood(ct[p])
       IN  IF IsExc(v)
           THEN /\ raised' = v
                /\ ll' = ll
           ELSE /\ ll' = Put(ll, p, v)
                /\ raised' = raised
    /\ UNCHANGED <<baskets, i, j, ct, gmi, rendered, lmi>>

\* str(ct[p])
Render(p) ==
    /\ raised = NoExc
    /\ p \in DOMAIN ct
    /\ rendered' = Put(rendered, p, Str(ct[p]))
    /\ UNCHANGED <<baskets, i, j, ct, gmi, ll, lmi, raised>>

\* local_mutual_information(p[1], p[2], baskets)
LocalMutualInformation(p) ==
    /\ raised = NoExc
    /\ LET v == local_mutual_information(p[1], p[2], baskets)
       IN  IF IsExc(v)
           THEN /\ raised' = v
                /\ lmi' = lmi
           ELSE /\ lmi' = Put(lmi, p, v)
                /\ raised' = raised
    /\ UNCHANGED <<baskets, i, j, ct, gmi, ll, rendered>>

\* The life of one table: built for (i, j), then queried and rendered in any
\* order, any number of times.
Next ==
    \/ Construct(<<i, j>>)
    \/ MutualInformation(<<i, j>>)
    \/ LogLikelihood(<<i, j>>)
    \/ Render(<<i, j>>)

Spec == Init /\ [][Next]_vars

\* The table and its two statistics.
NextStatistics ==
    \/ Construct(<<i, j>>)
    \/ MutualInformation(<<i, j>>)
    \/ LogLikelihood(<<i, j>>)

SpecStatistics == Init /\ [][NextStatistics]_vars

\* The standalone function.
NextLocal == LocalMutualInformation(<<i, j>>)

SpecLocal == Init /\ [][NextLocal]_vars

\* Every function applied to the two items in both orders.
NextSwap ==
    \/ Construct(<<i, j>>)
    \/ Construct(<<j, i>>)
    \/ MutualInformation(<<i, j>>)
    \/ MutualInformation(<<j, i>>)
    \/ LogLikelihood(<<i, j>>)
    \/ LogLikelihood(<<j, i>>)
    \/ LocalMutualInformation(<<i, j>>)
    \/ LocalMutualInformation(<<j, i>>)

SpecSwap == InitSwap /\ [][NextSwap]_vars

\* ------------------------------------------------------------ the claims
\* Reference counts, taken from the corpus itself by counting positions.
With(x) == Cardinality({k \in 1..Len(baskets) : x \in baskets[k]})
Both(x, y) ==
    Cardinality({k \in 1..Len(baskets) : x \in baskets[k] /\ y \in baskets[k]})
Occurrences ==
    Cardinality({ko \in (1..Len(baskets)) \X Items : ko[2] \in baskets[ko[1]]})

\* Comparisons of a returned value with 0.
IsZero(v) == v.hi = 0 /\ v.lo = 0
IsPositive(v) == ~IsZero(v) /\ ~v.neg
IsNegative(v) == ~IsZero(v) /\ v.neg

RatAdd(p, q) == Rat(p.num * q.den + q.num * p.den, p.den * q.den)
Whole(n) == Rat(n, 1)
Swap(p) == <<p[2], p[1]>>
Attempted == raised # NoExc \/ DOMAIN ct # {}

\* The four cells of a table: observed count, expected count, marginals.
Cells(t) ==
    {[O |-> t.O_11, E |-> t.E_11, R |-> t.R_1, C |-> t.C_1],
     [O |-> t.O_12, E |-> t.E_12, R |-> t.R_1, C |-> t.C_2],
     [O |-> t.O_21, E |-> t.E_21, R |-> t.R_2, C |-> t.C_1],
     [O |-> t.O_22, E |-> t.E_22, R |-> t.R_2, C |-> t.C_2]}

\* C1: in every constructed table the four observed counts add up to N, N is
\* the number of baskets of the corpus (so the same for every pair of items
\* over that corpus), each pair of marginals adds up to N, R_1 = O_11 + O_12
\* and C_1 = O_11 + O_21.
C1_MarginalConsistency ==
    \A p \in DOMAIN ct :
        LET t == ct[p]
        IN  /\ t.O_11 + t.O_12 + t.O_21 + t.O_22 = t.N
            /\ t.N = Len(baskets)
            /\ t.R_1 + t.R_2 = t.N
            /\ t.C_1 + t.C_2 = t.N
            /\ t.R_1 = t.O_11 + t.O_12
            /\ t.C_1 = t.O_11 + t.O_21

\* C1 witness: a table every cell of which was counted at least once.
C1_Witness ==
    /\ <<i, j>> \in DOMAIN ct
    /\ \A c \in Cells(ct[<<i, j>>]) : c.O >= 1

\* C2 as stated: over an empty corpus the constructor fails with an
\* InvalidInput kind of error and returns no table.
C2_InvalidInput ==
    (Len(baskets) = 0 /\ Attempted) =>
        /\ raised = [exc |-> "InvalidInput"]
        /\ DOMAIN ct = {}

\* C2 amended: over an empty corpus the constructor fails with the
\* ZeroDivisionError of its first division by N, and returns no table (so no
\* NaN or Infinity is ever stored, and no method is ever called).
C2_ZeroDivision ==
    (Len(baskets) = 0 /\ Attempted) =>
        /\ raised = ZeroDivisionError
        /\ DOMAIN ct = {}
        /\ DOMAIN gmi = {}
        /\ DOMAIN ll = {}

\* C2 witness: the constructor has been called on the empty corpus.
C2_Witness == Len(baskets) = 0 /\ raised # NoExc

\* C3: over a non-empty corpus no exception leaves the constructor,
\* mutual_information() or log_likelihood(): a cell observed 0 times
\* contributes the int 0, and a cell observed at least once has a strictly
\* positive expected count, so its term is a logarithm of a positive ratio.
C3_NeverFails ==
    Len(baskets) > 0 =>
        /\ raised = NoExc
        /\ \A p \in DOMAIN ct : \A c \in Cells(ct[p]) :
              /\ c.O = 0 => /\ Term2(c.O, c.E) = ZeroInt
                            /\ TermLn(c.O, c.E) = ZeroInt
              /\ c.O > 0 => /\ c.E.num > 0
                            /\ ~IsExc(Term2(c.O, c.E))
                            /\ ~IsExc(TermLn(c.O, c.E))

\* C3 witness: both statistics returned for an item that is in no basket of
\* a corpus with a duplicated basket.
C3_Witness ==
    /\ Len(baskets) >= 2
    /\ baskets[1] = baskets[2]
    /\ With(i) = 0
    /\ With(j) > 0
    /\ <<i, j>> \in DOMAIN gmi
    /\ <<i, j>> \in DOMAIN ll

\* C4: the table built for (j, i) is the transpose of the table built for
\* (i, j) (O_11, O_22, N equal; O_12 and O_21, the R and C marginals, E_12
\* and E_21 exchanged), the two tables give the same mutual_information()
\* and the same log_likelihood(), and local_mutual_information(i, j) =
\* local_mutual_information(j, i).
C4_Symmetry ==
    /\ \A p \in DOMAIN ct :
          Swap(p) \in DOMAIN ct =>
              LET t == ct[p]
                  u == ct[Swap(p)]
              IN  /\ t.O_11 = u.O_11 /\ t.O_22 = u.O_22
                  /\ t.O_12 = u.O_21 /\ t.O_21 = u.O_12
                  /\ t.R_1 = u.C_1 /\ t.R_2 = u.C_2
                  /\ t.C_1 = u.R_1 /\ t.C_2 = u.R_2
                  /\ t.N = u.N
                  /\ t.E_11 = u.E_11 /\ t.E_22 = u.E_22
                  /\ t.E_12 = u.E_21 /\ t.E_21 = u.E_12
    /\ \A p \in DOMAIN gmi : Swap(p) \in DOMAIN gmi => gmi[p] = gmi[Swap(p)]
    /\ \A p \in DOMAIN ll : Swap(p) \in DOMAIN ll => ll[p] = ll[Swap(p)]
    /\ \A p \in DOMAIN lmi : Swap(p) \in DOMAIN lmi => lmi[p] = lmi[Swap(p)]

\* C5: the expected counts of a table have the marginals of its observed
\* counts: N * E_xy = R_x * C_y for each cell, each E_xy >= 0, E_11 + E_12 =
\* R_1, E_21 + E_22 = R_2, E_11 + E_21 = C_1, E_12 + E_22 = C_2 and the four
\* add up to N (in exact arithmetic).
C5_ExpectationMarginals ==
    \A p \in DOMAIN ct :
        LET t == ct[p]
        IN  /\ \A c \in Cells(t) :
                  /\ c.E.num >= 0
                  /\ c.E.den > 0
                  /\ t.N * c.E.num = c.R * c.C * c.E.den
            /\ RatAdd(t.E_11, t.E_12) = Whole(t.R_1)
            /\ RatAdd(t.E_21, t.E_22) = Whole(t.R_2)
            /\ RatAdd(t.E_11, t.E_21) = Whole(t.C_1)
            /\ RatAdd(t.E_12, t.E_22) = Whole(t.C_2)
            /\ RatAdd(RatAdd(t.E_11, t.E_12), RatAdd(t.E_21, t.E_22))
                   = Whole(t.N)
            /\ t.R_1 * t.C_1 + t.R_1 * t.C_2 = t.R_1 * t.N
            /\ t.R_2 * t.C_1 + t.R_2 * t.C_2 = t.R_2 * t.N
            /\ t.R_1 * t.C_1 + t.R_2 * t.C_1 = t.N * t.C_1
            /\ t.R_1 * t.C_2 + t.R_2 * t.C_2 = t.N * t.C_2

\* C5 witness: a table whose four expected counts are all fractional.
C5_Witness ==
    /\ <<i, j>> \in DOMAIN ct
    /\ \A c \in Cells(ct[<<i, j>>]) : c.E.den > 1

\* C6: local_mutual_information(i, j, corpus) is the int 0, with no division
\* and no logarithm, when no basket holds both items (the empty corpus
\* included); otherwise it is math.log2(O / E), E = freq_i * freq_j / N',
\* with N' the sum of the basket sizes.
C6_LocalReference ==
    \A p \in DOMAIN lmi :
        IF Both(p[1], p[2]) = 0
        THEN lmi[p] = ZeroInt
        ELSE lmi[p] = MathLog2(DivByFloat(Both(p[1], p[2]),
                                          Rat(With(p[1]) * With(p[2]),
                                              Occurrences)))

\* C6 witness: the corpus [{A,B},{A},{B},{C}] and the pair (A, B): O = 1,
\* freq_A = freq_B = 2, N' = 5, E = 4/5, and the result is the double
\* 0.32192809488736235 = log2(5/4).
C6_Witness ==
    /\ baskets = <<{"A", "B"}, {"A"}, {"B"}, {"C"}>>
    /\ <<"A", "B">> \in DOMAIN lmi
    /\ Both("A", "B") = 1
    /\ With("A") = 2
    /\ With("B") = 2
    /\ Occurrences = 5
    /\ Len(baskets) = 4
    /\ lmi[<<"A", "B">>] = Float(FALSE, -54, 86416914, 63773579)

\* The sign of lmi[p] agrees with the comparison of O * N' and
\* freq_i * freq_j.
SignAgrees(p) ==
    LET ON == Both(p[1], p[2]) * Occurrences
        FF == With(p[1]) * With(p[2])
    IN  /\ IsZero(lmi[p]) <=> ON = FF
        /\ IsPositive(lmi[p]) <=> ON > FF
        /\ IsNegative(lmi[p]) <=> ON < FF

\* C7 as stated: for two distinct items that both occur in the corpus, the
\* result is 0 only when O * N' = freq_i * freq_j, positive exactly when
\* O * N' > freq_i * freq_j and negative exactly when O * N' < freq_i * freq_j.
C7_SignWheneverBothOccur ==
    \A p \in DOMAIN lmi :
        (p[1] # p[2] /\ With(p[1]) > 0 /\ With(p[2]) > 0) => SignAgrees(p)

\* C7 amended: the same for two distinct items that occur together in at
\* least one basket; for items that never occur together the result is the
\* int 0, whatever their frequencies.
C7_SignWhenCooccurring ==
    \A p \in DOMAIN lmi :
        p[1] # p[2] =>
            IF Both(p[1], p[2]) >= 1
            THEN SignAgrees(p)
            ELSE lmi[p] = ZeroInt

\* C7 witness: a negative result for two items that do occur together.
C7_Witness ==
    /\ i # j
    /\ <<i, j>> \in DOMAIN lmi
    /\ Both(i, j) >= 1
    /\ IsNegative(lmi[<<i, j>>])

\* C8: in a table whose joint count matches independence exactly
\* (O_11 * N = R_1 * C_1) every cell has its observed count equal to its
\* expected count, every term of either sum is 0, and mutual_information()
\* and log_likelihood() return 0.
C8_IndependenceNull ==
    \A p \in DOMAIN ct :
        LET t == ct[p]
        IN  t.O_11 * t.N = t.R_1 * t.C_1 =>
                /\ \A c \in Cells(t) :
                      /\ c.O * t.N = c.R * c.C
                      /\ c.E = Whole(c.O)
                      /\ IsZero(Term2(c.O, c.E))
                      /\ IsZero(TermLn(c.O, c.E))
                /\ p \in DOMAIN gmi => IsZero(gmi[p])
                /\ p \in DOMAIN ll => IsZero(ll[p])

\* C8 witness: the corpus [{A,B},{A},{B},{C}] and the pair (A, B), every
\* observed and expected count 1, both statistics returned.
C8_Witness ==
    /\ baskets = <<{"A", "B"}, {"A"}, {"B"}, {"C"}>>
    /\ <<"A", "B">> \in DOMAIN gmi
    /\ <<"A", "B">> \in DOMAIN ll
    /\ \A c \in Cells(ct[<<"A", "B">>]) :
          c.O = 1 /\ c.E = Whole(1) /\ c.R = 2 /\ c.C = 2
    /\ gmi[<<"A", "B">>] = FloatZero

\* C9: no step changes the corpus or the items; once a table is built no
\* call changes any of its fields; and every mutual_information(),
\* log_likelihood() and rendering returns what the call before it returned
\* (hence what the first call returned).
C9_Immutable ==
    [][/\ baskets' = baskets
       /\ i' = i
       /\ j' = j
       /\ \A p \in DOMAIN ct : p \in DOMAIN ct' /\ ct'[p] = ct[p]
       /\ \A p \in DOMAIN ct' : ct'[p].baskets = baskets
       /\ \A p \in DOMAIN gmi : p \in DOMAIN gmi' /\ gmi'[p] = gmi[p]
       /\ \A p \in DOMAIN ll : p \in DOMAIN ll' /\ ll'[p] = ll[p]
       /\ \A p \in DOMAIN rendered :
             p \in DOMAIN rendered' /\ rendered'[p] = rendered[p]
       /\ \A p \in DOMAIN rendered' : rendered'[p] = Str(ct'[p])]_vars

\* C9 witness: a table queried by both statistics and rendered.
C9_Witness ==
    /\ <<i, j>> \in DOMAIN gmi
    /\ <<i, j>> \in DOMAIN ll
    /\ <<i, j>> \in DOMAIN rendered
    /\ ~IsZero(gmi[<<i, j>>])

\* C10: with the same item passed twice over a non-empty corpus the
\* constructor does not fail; the table has O_12 = O_21 = 0, O_11 = R_1 = C_1
\* = the number of baskets holding the item, O_22 = R_2 = C_2 = N - O_11; and
\* mutual_information() and log_likelihood() return without an exception.
C10_SameItem ==
    (i = j /\ Len(baskets) > 0) =>
        /\ raised = NoExc
        /\ \A p \in DOMAIN ct :
              LET t == ct[p]
              IN  /\ t.O_12 = 0 /\ t.O_21 = 0
                  /\ t.O_11 = With(i) /\ t.R_1 = With(i) /\ t.C_1 = With(i)
                  /\ t.N = Len(baskets)
                  /\ t.O_22 = t.N - t.O_11
                  /\ t.R_2 = t.N - t.O_11
                  /\ t.C_2 = t.N - t.O_11
                  /\ ~IsExc(mutual_information(t))
                  /\ ~IsExc(log_likelihood(t))

\* C10 witness: the same item passed twice, in some baskets but not in all,
\* and both statistics returned.
C10_Witness ==
    /\ i = j
    /\ <<i, j>> \in DOMAIN gmi
    /\ <<i, j>> \in DOMAIN ll
    /\ 0 < With(i)
    /\ With(i) < Len(baskets)

====
